---- MODULE Spec2Model ----
(***************************************************************************)
(* Model of dodal.devices.oav.oav_parameters.OAVParameters.                *)
(*                                                                         *)
(* Python values are records [t, n, s, d]: t is the Python type, n the     *)
(* number (floats are kept exactly, in hundredths: 1.05 is 105), s the     *)
(* text of a str as a sequence of one-character strings, d the content of  *)
(* a dict.  Dictionaries are functions from their keys; a ChainMap is the  *)
(* sequence of its maps.                                                   *)
(***************************************************************************)
EXTENDS Integers, Sequences, FiniteSets, TLC

\* ------------------------------------------------------------------ values

EmptyDict == [k \in {} |-> 0]

NoneV == [t |-> "none", n |-> 0, s |-> <<>>, d |-> EmptyDict]
Unset == [t |-> "unset", n |-> 0, s |-> <<>>, d |-> EmptyDict]
IntV(i) == [t |-> "int", n |-> i, s |-> <<>>, d |-> EmptyDict]
FloatV(h) == [t |-> "float", n |-> h, s |-> <<>>, d |-> EmptyDict]
StrV(cs) == [t |-> "str", n |-> 0, s |-> cs, d |-> EmptyDict]
DictV(f) == [t |-> "dict", n |-> 0, s |-> <<"{", "}">>, d |-> f]

NoExc == [kind |-> "none", names |-> ""]
Exc(kind, names) == [kind |-> kind, names |-> names]

Digits == <<"0", "1", "2", "3", "4", "5", "6", "7", "8", "9">>

IsDigit(c) == \E i \in 1..10 : Digits[i] = c

DigitVal(c) == (CHOOSE i \in 1..10 : Digits[i] = c) - 1

AllDigits(cs) == \A i \in 1..Len(cs) : IsDigit(cs[i])

RECURSIVE DigitsVal(_)
DigitsVal(cs) ==
    IF cs = <<>> THEN 0
    ELSE 10 * DigitsVal(SubSeq(cs, 1, Len(cs) - 1)) + DigitVal(cs[Len(cs)])

RECURSIVE IntStr(_)
IntStr(i) ==
    IF i < 10 THEN <<Digits[i + 1]>>
    ELSE IntStr(i \div 10) \o <<Digits[(i % 10) + 1]>>

\* the fractional digits of str() of a float: at least one, no trailing zero
FracStr(frac) ==
    IF frac % 10 = 0 THEN <<Digits[(frac \div 10) + 1]>>
    ELSE <<Digits[(frac \div 10) + 1], Digits[(frac % 10) + 1]>>

\* str() of a float
FloatStr(h) == IntStr(h \div 100) \o <<".">> \o FracStr(h % 100)

\* position of the decimal point in cs, 0 when there is none
DotAt(cs) ==
    IF \E i \in 1..Len(cs) : cs[i] = "."
    THEN CHOOSE i \in 1..Len(cs) : cs[i] = "." /\ \A j \in 1..(i - 1) : cs[j] # "."
    ELSE 0

\* the value in hundredths of the fractional digits fp
FracVal(fp) ==
    IF Len(fp) = 0 THEN 0
    ELSE IF Len(fp) = 1 THEN 10 * DigitVal(fp[1])
    ELSE 10 * DigitVal(fp[1]) + DigitVal(fp[2])

\* the number with integer digits ip and fractional digits fp: [ok, n]
ParseParts(ip, fp) ==
    IF AllDigits(ip) /\ AllDigits(fp) /\ Len(ip) + Len(fp) > 0
    THEN [ok |-> TRUE, n |-> 100 * DigitsVal(ip) + FracVal(fp)]
    ELSE [ok |-> FALSE, n |-> 0]

\* the text cs with its decimal point at d
ParseAt(cs, d) ==
    IF d = 0 THEN ParseParts(cs, <<>>)
    ELSE ParseParts(SubSeq(cs, 1, d - 1), SubSeq(cs, d + 1, Len(cs)))

\* float(text): [ok, n]; texts carry at most two fractional digits
ParseFloat(cs) == ParseAt(cs, DotAt(cs))

\* int(text): [ok, n]
ParseInt(cs) ==
    IF cs # <<>> /\ AllDigits(cs)
    THEN [ok |-> TRUE, n |-> DigitsVal(cs)]
    ELSE [ok |-> FALSE, n |-> 0]

\* the outcome of float(str) and int(str) from the parse p: [val, exc]
FloatOf(p) ==
    IF p.ok THEN [val |-> FloatV(p.n), exc |-> "none"]
    ELSE [val |-> NoneV, exc |-> "ValueError"]

IntOf(p) ==
    IF p.ok THEN [val |-> IntV(p.n), exc |-> "none"]
    ELSE [val |-> NoneV, exc |-> "ValueError"]

\* param_type(param) for param_type in float, int, str: [val, exc]
Coerce(type, v) ==
    CASE type = "float" ->
           (CASE v.t = "int" -> [val |-> FloatV(100 * v.n), exc |-> "none"]
              [] v.t = "float" -> [val |-> FloatV(v.n), exc |-> "none"]
              [] v.t = "str" -> FloatOf(ParseFloat(v.s))
              [] OTHER -> [val |-> NoneV, exc |-> "TypeError"])
      [] type = "int" ->
           (CASE v.t = "int" -> [val |-> IntV(v.n), exc |-> "none"]
              [] v.t = "float" -> [val |-> IntV(v.n \div 100), exc |-> "none"]
              [] v.t = "str" -> IntOf(ParseInt(v.s))
              [] OTHER -> [val |-> NoneV, exc |-> "TypeError"])
      [] type = "str" ->
           (CASE v.t = "int" -> [val |-> StrV(IntStr(v.n)), exc |-> "none"]
              [] v.t = "float" -> [val |-> StrV(FloatStr(v.n)), exc |-> "none"]
              [] v.t = "str" -> [val |-> StrV(v.s), exc |-> "none"]
              [] v.t = "none" -> [val |-> StrV(<<"N", "o", "n", "e">>), exc |-> "none"]
              [] OTHER -> [val |-> StrV(v.s), exc |-> "none"])

\* --------------------------------------------------------------- load_json

\* the keys the comprehension of load_json selects: those of the entries of
\* raw_params that are not a dict
Scalars(raw_params) == {k \in DOMAIN raw_params : raw_params[k].t # "dict"}

\* raw_params after the comprehension popped the keys in popped
AfterPops(raw_params, popped) == [k \in (DOMAIN raw_params) \ popped |-> raw_params[k]]

\* load_json with the comprehension reading raw_params[k] instead of popping it
load_json_NoPop(raw_params) ==
    [global_params |-> [k \in Scalars(raw_params) |-> raw_params[k]],
     context_dicts |-> raw_params]

\* raw_params is what json.load returns for the file
load_json(raw_params) ==
    [global_params |-> [k \in Scalars(raw_params) |-> raw_params[k]],
     context_dicts |-> AfterPops(raw_params, Scalars(raw_params))]

\* ---------------------------------------------------------------- ChainMap

\* ChainMap.get(name, default): the first map that has the key decides
RECURSIVE ChainGet(_, _, _)
ChainGet(maps, name, default) ==
    IF maps = <<>> THEN default
    ELSE IF name \in DOMAIN Head(maps) THEN Head(maps)[name]
         ELSE ChainGet(Tail(maps), name, default)

\* ChainMap.new_child(m)
NewChild(maps, m) == <<m>> \o maps

\* list.pop(): the list without its last element
ListPop(maps) == SubSeq(maps, 1, Len(maps) - 1)

\* ------------------------------------------ update_self_from_current_context

\* The update(name, param_type, default) calls in source order; attr is the
\* attribute assigned.  A call without default passes None.
ParamSpecs == <<
    [attr |-> "exposure", name |-> "exposure", type |-> "float", default |-> NoneV],
    [attr |-> "acquire_period", name |-> "acqPeriod", type |-> "float", default |-> NoneV],
    [attr |-> "gain", name |-> "gain", type |-> "float", default |-> NoneV],
    [attr |-> "canny_edge_upper_threshold", name |-> "CannyEdgeUpperThreshold",
     type |-> "float", default |-> NoneV],
    [attr |-> "canny_edge_lower_threshold", name |-> "CannyEdgeLowerThreshold",
     type |-> "float", default |-> FloatV(500)],
    [attr |-> "minimum_height", name |-> "minheight", type |-> "int", default |-> NoneV],
    [attr |-> "zoom", name |-> "zoom", type |-> "float", default |-> NoneV],
    [attr |-> "preprocess", name |-> "preprocess", type |-> "int", default |-> NoneV],
    [attr |-> "preprocess_K_size", name |-> "preProcessKSize", type |-> "int",
     default |-> NoneV],
    [attr |-> "detection_script_filename", name |-> "filename", type |-> "str",
     default |-> NoneV],
    [attr |-> "close_ksize", name |-> "close_ksize", type |-> "int", default |-> IntV(11)],
    [attr |-> "min_callback_time", name |-> "min_callback_time", type |-> "float",
     default |-> FloatV(8)],
    [attr |-> "direction", name |-> "direction", type |-> "int", default |-> NoneV],
    [attr |-> "max_tip_distance", name |-> "max_tip_distance", type |-> "float",
     default |-> IntV(300)] >>

Attrs == {ParamSpecs[i].attr : i \in 1..Len(ParamSpecs)}

\* the try statement of update around c = param_type(param): [val, exc]
Caught(c, name) ==
    IF c.exc = "none" THEN [val |-> c.val, exc |-> NoExc]
    ELSE IF c.exc = "AssertionError"
         THEN [val |-> NoneV, exc |-> Exc("TypeError", name)]
         ELSE [val |-> NoneV, exc |-> Exc(c.exc, "")]

\* the inner function update: [val, exc]
Update(maps, name, param_type, default) ==
    Caught(Coerce(param_type, ChainGet(maps, name, default)), name)

UpdateParam(maps, p) == Update(maps, p.name, p.type, p.default)

RECURSIVE UpdateSelfFrom(_, _, _)

\* the assignment self.attr = u, u the outcome of the update call
Assigned(maps, flds, i, attr, u) ==
    IF u.exc # NoExc THEN [fields |-> flds, exc |-> u.exc]
    ELSE UpdateSelfFrom(maps, [flds EXCEPT ![attr] = u.val], i + 1)

\* The assignments of update_self_from_current_context from the i-th on; the
\* first exception ends the method and keeps the assignments made before it.
UpdateSelfFrom(maps, flds, i) ==
    IF i > Len(ParamSpecs) THEN [fields |-> flds, exc |-> NoExc]
    ELSE Assigned(maps, flds, i, ParamSpecs[i].attr, UpdateParam(maps, ParamSpecs[i]))

update_self_from_current_context(maps, flds) == UpdateSelfFrom(maps, flds, 1)

\* ------------------------------------------------- load_microns_per_pixel

\* "not zoom"
Falsy(v) ==
    \/ v.t = "none"
    \/ v.t \in {"int", "float"} /\ v.n = 0
    \/ v.t = "str" /\ v.s = <<>>

\* a Python float f == zoom, f in hundredths
FloatEq(f, zoom) ==
    \/ zoom.t = "float" /\ zoom.n = f
    \/ zoom.t = "int" /\ 100 * zoom.n = f

\* a / b on floats; the quotients of the values used here are exact
FloatDiv(a, b) == (100 * a) \div b

RECURSIVE MicronsLoop(_, _, _, _, _)

\* the body of the loop for a node whose level is zoom; x and y are the
\* parses of its micronsPerXPixel and micronsPerYPixel
Matched(levels, i, zoom, mx, my, x, y) ==
    IF ~x.ok THEN [mx |-> mx, my |-> my, exc |-> Exc("ValueError", "")]
    ELSE IF ~y.ok THEN [mx |-> FloatV(x.n), my |-> my, exc |-> Exc("ValueError", "")]
    ELSE MicronsLoop(levels, i + 1, zoom, FloatV(x.n), FloatV(y.n))

\* the body of the loop for node, level the parse of its level
Visited(levels, i, zoom, mx, my, node, level) ==
    IF ~level.ok THEN [mx |-> mx, my |-> my, exc |-> Exc("ValueError", "")]
    ELSE IF ~FloatEq(level.n, zoom) THEN MicronsLoop(levels, i + 1, zoom, mx, my)
    ELSE Matched(levels, i, zoom, mx, my, ParseFloat(node.micronsPerXPixel),
                 ParseFloat(node.micronsPerYPixel))

\* The loop over the zoomLevel nodes from the i-th on.  It has no break: a
\* later node with an equal level overwrites an earlier one.
MicronsLoop(levels, i, zoom, mx, my) ==
    IF i > Len(levels) THEN [mx |-> mx, my |-> my, exc |-> NoExc]
    ELSE Visited(levels, i, zoom, mx, my, levels[i], ParseFloat(levels[i].level))

\* the statements after the loop, r its outcome: [mx, my, mtdp, exc]
AfterLoop(r, max_tip_distance, pixels) ==
    IF r.exc # NoExc
    THEN [mx |-> r.mx, my |-> r.my, mtdp |-> pixels, exc |-> r.exc]
    ELSE IF r.mx = NoneV \/ r.my = NoneV
    THEN [mx |-> r.mx, my |-> r.my, mtdp |-> pixels,
          exc |-> Exc("OAVError_ZoomLevelNotFound", "")]
    ELSE IF r.mx.n = 0
    THEN [mx |-> r.mx, my |-> r.my, mtdp |-> pixels, exc |-> Exc("ZeroDivisionError", "")]
    ELSE [mx |-> r.mx, my |-> r.my,
          mtdp |-> FloatV(FloatDiv(max_tip_distance.n, r.mx.n)), exc |-> NoExc]

\* [mx, my, mtdp, exc]: the three attributes the method assigns and the
\* exception it ends with; pixels is max_tip_distance_pixels before the call
load_microns_per_pixel(zoomArg, self_zoom, max_tip_distance, pixels, levels) ==
    AfterLoop(MicronsLoop(levels, 1, IF Falsy(zoomArg) THEN self_zoom ELSE zoomArg,
                          NoneV, NoneV),
              max_tip_distance, pixels)

\* ------------------------------------------------- _extract_beam_position

\* A line of the display configuration is key + " = " + val when sep holds,
\* and the bare text key (no " = " in it) otherwise.
Line(key, val) == [key |-> key, sep |-> TRUE, val |-> val]
Bare(key) == [key |-> key, sep |-> FALSE, val |-> <<>>]

\* cs.startswith(prefix)
StartsWith(cs, prefix) ==
    Len(prefix) <= Len(cs) /\ SubSeq(cs, 1, Len(prefix)) = prefix

\* line.startswith("zoomLevel = " + str(zoom))
IsMarker(line, zoom) ==
    line.sep /\ line.key = "zoomLevel" /\ StartsWith(line.val, FloatStr(zoom.n))

\* the index at which the for loop breaks, 0 when it runs to the end
MarkerAt(file_lines, zoom) ==
    IF \E i \in 1..Len(file_lines) : IsMarker(file_lines[i], zoom)
    THEN CHOOSE i \in 1..Len(file_lines) :
            /\ IsMarker(file_lines[i], zoom)
            /\ \A j \in 1..(i - 1) : ~IsMarker(file_lines[j], zoom)
    ELSE 0

\* int(text) of the second token, p the parse of the text: [val, exc]
TokenInt(p) ==
    IF ~p.ok THEN [val |-> Unset, exc |-> Exc("ValueError", "")]
    ELSE [val |-> IntV(p.n), exc |-> NoExc]

\* int(line.split(" = ")[1]): [val, exc]
LineInt(line) ==
    IF ~line.sep THEN [val |-> Unset, exc |-> Exc("IndexError", "")]
    ELSE TokenInt(ParseInt(line.val))

\* the four assignments, x and y the outcomes of the two conversions
Centre(beam, x, y) ==
    IF x.exc # NoExc THEN [beam |-> beam, exc |-> x.exc]
    ELSE IF y.exc # NoExc THEN [beam |-> [beam EXCEPT !.i = x.val], exc |-> y.exc]
    ELSE [beam |-> [i |-> x.val, j |-> y.val, x |-> x.val, y |-> y.val], exc |-> NoExc]

\* the statements after the loop.  crosshair_x_line and crosshair_y_line are
\* bound only when the loop breaks (at m), and then to lines of the file,
\* never to None.
AfterScan(file_lines, beam, m) ==
    IF m = 0 THEN [beam |-> beam, exc |-> Exc("UnboundLocalError", "")]
    ELSE IF m + 2 > Len(file_lines) THEN [beam |-> beam, exc |-> Exc("IndexError", "")]
    ELSE IF file_lines[m + 1] = NoneV \/ file_lines[m + 2] = NoneV
    THEN [beam |-> beam, exc |-> Exc("OAVError_BeamPositionNotFound", "")]
    ELSE Centre(beam, LineInt(file_lines[m + 1]), LineInt(file_lines[m + 2]))

\* beam is [i, j, x, y], the four beam_centre attributes; the result is the
\* attributes after the call and the exception the call ends with
extract_beam_position(file_lines, zoom, beam) ==
    AfterScan(file_lines, beam, MarkerAt(file_lines, zoom))

\* ------------------------------------------------- calculate_beam_distance

calculate_beam_distance(beam, horizontal_pixels, vertical_pixels) ==
    <<beam.i.n - horizontal_pixels, beam.j.n - vertical_pixels>>

\* ------------------------------------------------------------------ inputs

MaxPixel == 1

Names == {ParamSpecs[i].name : i \in 1..Len(ParamSpecs)}

Required == {ParamSpecs[i].name : i \in {j \in 1..Len(ParamSpecs) : ParamSpecs[j].default = NoneV}}

TypeOf(name) == ParamSpecs[CHOOSE i \in 1..Len(ParamSpecs) : ParamSpecs[i].name = name].type

\* the value a layer ("G" for the top level, "A" or "B" for a context) gives a
\* parameter; each is coercible to the parameter's type and the three coerce
\* to different values
LayerVal(layer, name) ==
    CASE TypeOf(name) = "float" ->
           (CASE layer = "G" -> FloatV(100)
              [] layer = "A" -> StrV(<<"5", ".", "0">>)
              [] layer = "B" -> IntV(5))
      [] TypeOf(name) = "int" ->
           (CASE layer = "G" -> IntV(1)
              [] layer = "A" -> FloatV(270)
              [] layer = "B" -> StrV(<<"3">>))
      [] TypeOf(name) = "str" ->
           (CASE layer = "G" -> StrV(<<"f">>)
              [] layer = "A" -> IntV(7)
              [] layer = "B" -> FloatV(105))

Absent == [t |-> "absent", n |-> 0, s |-> <<>>, d |-> EmptyDict]

\* what a layer may hold for the parameter under study
Variants(layer, name) ==
    IF layer = "A"
    THEN {Absent, LayerVal(layer, name), StrV(<<"a">>)}
    ELSE {Absent, LayerVal(layer, name)}

\* the dictionary base with key name set to v, or without it when v is Absent
With(base, name, v) ==
    IF v = Absent THEN [k \in (DOMAIN base) \ {name} |-> base[k]] ELSE (name :> v) @@ base

\* A document: the top level holds every required parameter, context B its
\* own value of every required parameter, context A nothing; gv, av, bv then
\* set or remove parameter name in each.
Document(name, gv, av, bv) ==
    LET g == With([k \in Required |-> LayerVal("G", k)], name, gv)
        a == With(EmptyDict, name, av)
        b == With([k \in Required |-> LayerVal("B", k)], name, bv)
    IN  ("A" :> DictV(a)) @@ g @@ ("B" :> DictV(b))

Documents ==
    UNION {{Document(name, gv, av, bv) :
               gv \in Variants("G", name), av \in Variants("A", name),
               bv \in Variants("B", name)} : name \in Names}

\* the document whose contexts leave every parameter as the base has it
PlainDocument == Document("zoom", LayerVal("G", "zoom"), Absent, LayerVal("B", "zoom"))

Node(level, x, y) == [level |-> level, micronsPerXPixel |-> x, micronsPerYPixel |-> y]

\* calibration files: levels 1.0 and 5.0; level 1.0 only; level 1.0 twice
ZoomFiles == {
    <<Node(<<"1", ".", "0">>, <<"2", ".", "5">>, <<"2", ".", "5">>),
      Node(<<"5", ".", "0">>, <<"0", ".", "5">>, <<"0", ".", "5">>)>>,
    <<Node(<<"1", ".", "0">>, <<"2", ".", "5">>, <<"2", ".", "5">>)>>,
    <<Node(<<"1", ".", "0">>, <<"2", ".", "5">>, <<"2", ".", "5">>),
      Node(<<"1">>, <<"1", ".", "2", "5">>, <<"1", ".", "2", "5">>),
      Node(<<"5", ".", "0">>, <<"0", ".", "5">>, <<"0", ".", "5">>)>> }

PlainZoomFile ==
    <<Node(<<"1", ".", "0">>, <<"2", ".", "5">>, <<"2", ".", "5">>),
      Node(<<"5", ".", "0">>, <<"0", ".", "5">>, <<"0", ".", "5">>)>>

Marker(level) == Line("zoomLevel", level)

PlainDisplayFile ==
    <<Marker(<<"1", ".", "0">>), Line("crosshairX", <<"1">>), Line("crosshairY", <<"0">>),
      Marker(<<"5", ".", "0">>), Line("crosshairX", <<"0">>), Line("crosshairY", <<"1">>)>>

\* display files: well formed; the marker of 1.05 before that of 1.0; no
\* marker of 1.0; a malformed crosshairY under 5.0; a marker on the last
\* line; a line without " = " under 5.0; the empty file
DisplayFiles == {
    PlainDisplayFile,
    <<Marker(<<"1", ".", "0", "5">>), Line("crosshairX", <<"0">>), Line("crosshairY", <<"0">>),
      Marker(<<"1", ".", "0">>), Line("crosshairX", <<"1">>), Line("crosshairY", <<"0">>),
      Marker(<<"5", ".", "0">>), Line("crosshairX", <<"0">>), Line("crosshairY", <<"1">>)>>,
    <<Marker(<<"5", ".", "0">>), Line("crosshairX", <<"0">>), Line("crosshairY", <<"1">>)>>,
    <<Marker(<<"1", ".", "0">>), Line("crosshairX", <<"1">>), Line("crosshairY", <<"0">>),
      Marker(<<"5", ".", "0">>), Line("crosshairX", <<"0">>), Line("crosshairY", <<"a">>)>>,
    <<Marker(<<"5", ".", "0">>), Line("crosshairX", <<"0">>), Line("crosshairY", <<"1">>),
      Bare("#"), Marker(<<"1", ".", "0">>)>>,
    <<Marker(<<"1", ".", "0">>), Line("crosshairX", <<"1">>), Line("crosshairY", <<"0">>),
      Marker(<<"5", ".", "0">>), Bare("#"), Line("crosshairY", <<"0">>)>>,
    <<>> }

ContextNames == {"A", "B", "Z"}

\* the zoom arguments load_microns_per_pixel is called with: none, 0, the
\* integer 5, and 7.0, which no calibration file has
ZoomArgs == {NoneV, IntV(0), IntV(5), FloatV(700)}

\* ------------------------------------------------------------------- state

VARIABLES
    oav_config_json,          \* the JSON document as json.load returns it
    zoom_params_file,         \* the zoomLevel nodes of the calibration file
    display_config,           \* the lines of the display configuration
    status,                   \* "new", "ok" (constructed) or "failed"
    context,                  \* self.context
    global_params,
    context_dicts,
    active_params,            \* the maps of the ChainMap, first looked up first
    fields,                   \* the attributes update_self_from_current_context assigns
    micronsPerXPixel,
    micronsPerYPixel,
    max_tip_distance_pixels,
    beam_centre,              \* [i, j, x, y]: beam_centre_i, _j, _x, _y
    call,                     \* the last call: [op, arg, exc, ret]
    selected,                 \* the name given to the last update_context that returned
    raised                    \* some call on the constructed object raised

files == <<oav_config_json, zoom_params_file, display_config>>

loaded == <<global_params, context_dicts>>

microns == <<micronsPerXPixel, micronsPerYPixel, max_tip_distance_pixels>>

history == <<selected, raised>>

vars == <<files, status, context, loaded, active_params, fields, microns, beam_centre, call, history>>

NoBeam == [i |-> Unset, j |-> Unset, x |-> Unset, y |-> Unset]

NoRet == <<>>

\* a context name is passed as the str of that one element
Call(op, arg, exc, ret) == [op |-> op, arg |-> arg, exc |-> exc, ret |-> ret]

Init ==
    /\ oav_config_json \in Documents
    /\ zoom_params_file \in ZoomFiles
    /\ display_config \in DisplayFiles
    /\ \/ oav_config_json = PlainDocument
       \/ zoom_params_file = PlainZoomFile /\ display_config = PlainDisplayFile
    /\ status = "new"
    /\ global_params = EmptyDict
    /\ context_dicts = EmptyDict
    /\ active_params = <<>>
    /\ fields = [a \in Attrs |-> Unset]
    /\ micronsPerXPixel = Unset
    /\ micronsPerYPixel = Unset
    /\ max_tip_distance_pixels = Unset
    /\ beam_centre = NoBeam
    /\ call = Call("none", NoneV, NoExc, NoRet)
    /\ context = ""
    /\ selected = ""
    /\ raised = FALSE

\* ----------------------------------------------------------------- actions

\* the end of __init__, with exception exc or none
Ended(ctx, exc) ==
    /\ status' = IF exc = NoExc THEN "ok" ELSE "failed"
    /\ call' = Call("__init__", StrV(<<ctx>>), exc, NoRet)

\* __init__ after self._extract_beam_position() ended as b
Extracted(ctx, b) ==
    /\ beam_centre' = b.beam
    /\ Ended(ctx, b.exc)

\* __init__ after self.load_microns_per_pixel() ended as m
Loaded(ctx, m, zoom) ==
    /\ micronsPerXPixel' = m.mx
    /\ micronsPerYPixel' = m.my
    /\ max_tip_distance_pixels' = m.mtdp
    /\ IF m.exc # NoExc
       THEN UNCHANGED beam_centre /\ Ended(ctx, m.exc)
       ELSE Extracted(ctx, extract_beam_position(display_config, zoom, beam_centre))

\* __init__ after self.update_self_from_current_context() ended as u
Updated(ctx, u) ==
    /\ fields' = u.fields
    /\ IF u.exc # NoExc
       THEN UNCHANGED <<microns, beam_centre>> /\ Ended(ctx, u.exc)
       ELSE Loaded(ctx,
                   load_microns_per_pixel(NoneV, u.fields["zoom"],
                                          u.fields["max_tip_distance"],
                                          max_tip_distance_pixels, zoom_params_file),
                   u.fields["zoom"])

\* __init__ after load_json returned j
JsonLoaded(ctx, j) ==
    /\ global_params' = j.global_params
    /\ context_dicts' = j.context_dicts
    /\ IF ctx \notin DOMAIN j.context_dicts
       THEN /\ UNCHANGED <<active_params, fields, microns, beam_centre>>
            /\ Ended(ctx, Exc("KeyError", ""))
       ELSE /\ active_params' = <<j.context_dicts[ctx].d, j.global_params>>
            /\ Updated(ctx, update_self_from_current_context(
                               <<j.context_dicts[ctx].d, j.global_params>>, fields))

\* OAVParameters(context, ...): the whole of __init__.  The first exception
\* ends it; the attributes assigned before it are kept in the state for
\* inspection, with status "failed".
Construct(ctx) ==
    /\ status = "new"
    /\ context' = ctx
    /\ JsonLoaded(ctx, load_json(oav_config_json))
    /\ UNCHANGED <<files, history>>

\* the end of a call on the constructed object
Returned(op, arg, exc) ==
    /\ call' = Call(op, arg, exc, NoRet)
    /\ raised' = (raised \/ exc # NoExc)

\* update_context(context): the pop comes first, then the lookup of the name
UpdateContext(ctx) ==
    /\ status = "ok"
    /\ IF active_params = <<>>
       THEN /\ UNCHANGED <<active_params, selected>>
            /\ Returned("update_context", StrV(<<ctx>>), Exc("IndexError", ""))
       ELSE IF ctx \notin DOMAIN context_dicts
       THEN /\ active_params' = ListPop(active_params)
            /\ UNCHANGED selected
            /\ Returned("update_context", StrV(<<ctx>>), Exc("KeyError", ""))
       ELSE /\ active_params' = NewChild(ListPop(active_params), context_dicts[ctx].d)
            /\ selected' = ctx
            /\ Returned("update_context", StrV(<<ctx>>), NoExc)
    /\ UNCHANGED <<files, status, context, loaded, fields, microns, beam_centre>>

SelfUpdated(u) ==
    /\ fields' = u.fields
    /\ Returned("update_self_from_current_context", NoneV, u.exc)

UpdateSelfFromCurrentContext ==
    /\ status = "ok"
    /\ SelfUpdated(update_self_from_current_context(active_params, fields))
    /\ UNCHANGED <<files, status, context, loaded, active_params, microns, beam_centre,
                   selected>>

MicronsLoaded(zoom, m) ==
    /\ micronsPerXPixel' = m.mx
    /\ micronsPerYPixel' = m.my
    /\ max_tip_distance_pixels' = m.mtdp
    /\ Returned("load_microns_per_pixel", zoom, m.exc)

LoadMicronsPerPixel(zoom) ==
    /\ status = "ok"
    /\ MicronsLoaded(zoom, load_microns_per_pixel(zoom, fields["zoom"],
                                                  fields["max_tip_distance"],
                                                  max_tip_distance_pixels, zoom_params_file))
    /\ UNCHANGED <<files, status, context, loaded, active_params, fields, beam_centre,
                   selected>>

BeamExtracted(b) ==
    /\ beam_centre' = b.beam
    /\ Returned("_extract_beam_position", NoneV, b.exc)

ExtractBeamPosition ==
    /\ status = "ok"
    /\ BeamExtracted(extract_beam_position(display_config, fields["zoom"], beam_centre))
    /\ UNCHANGED <<files, status, context, loaded, active_params, fields, microns, selected>>

CalculateBeamDistance(h, v) ==
    /\ status = "ok"
    /\ call' = Call("calculate_beam_distance", StrV(<<>>), NoExc,
                    <<h, v>> \o calculate_beam_distance(beam_centre, h, v))
    /\ UNCHANGED <<files, status, context, loaded, active_params, fields, microns,
                   beam_centre, history>>

Next ==
    \/ \E c \in ContextNames : Construct(c)
    \/ \E c \in ContextNames : UpdateContext(c)
    \/ UpdateSelfFromCurrentContext
    \/ \E z \in ZoomArgs : LoadMicronsPerPixel(z)
    \/ ExtractBeamPosition
    \/ \E h, v \in 0..MaxPixel : CalculateBeamDistance(h, v)

Spec == Init /\ [][Next]_vars
\* ------------------------------------------------------------------ claims

\* the value the two-level lookup of the claims gives parameter name: that
\* of context c when the key is there, else that of the global parameters
Layered(c, name, default) ==
    IF name \in DOMAIN context_dicts[c].d THEN context_dicts[c].d[name]
    ELSE IF name \in DOMAIN global_params THEN global_params[name]
    ELSE default

InLayers(c, name) == name \in DOMAIN context_dicts[c].d \/ name \in DOMAIN global_params

\* C1: after one or more update_context calls with known names, a following
\* update_self_from_current_context that returns has set every declared field
\* to the (coerced) value of the most recently selected context when the key
\* is there, and else to that of the global parameters.  Checked on the runs
\* in which no call raised.
C1_SelectedContextThenGlobal ==
    (/\ status = "ok"
     /\ selected # ""
     /\ ~raised
     /\ call.op = "update_self_from_current_context")
    => \A i \in 1..Len(ParamSpecs) :
          LET p == ParamSpecs[i]
          IN  InLayers(selected, p.name)
              => fields[p.attr] = Coerce(p.type, Layered(selected, p.name, p.default)).val

\* C2: in every state of a constructed object reached by calls that all
\* returned, max_tip_distance_pixels is max_tip_distance divided by
\* micronsPerXPixel.  (The claim has micronsPerXPixel be the calibration
\* value of the current zoom as well; the quotient alone is stated here.)
C2_TipDistanceInPixels ==
    (status = "ok" /\ ~raised)
    => /\ micronsPerXPixel.t = "float"
       /\ max_tip_distance_pixels =
             FloatV(FloatDiv(fields["max_tip_distance"].n, micronsPerXPixel.n))

\* the calibration file has a zoomLevel node whose level equals zoom
HasLevel(zoom) ==
    \E i \in 1..Len(zoom_params_file) :
        FloatEq(ParseFloat(zoom_params_file[i].level).n, zoom)

\* C3: a call of load_microns_per_pixel for a zoom level (the argument when
\* one is given, whatever its value, else the current zoom) that has no node
\* of equal level in the calibration file raises the zoom-level-not-found
\* error.
C3_AbsentZoomRaises ==
    (/\ status = "ok"
     /\ call.op = "load_microns_per_pixel"
     /\ ~HasLevel(IF call.arg = NoneV THEN fields["zoom"] ELSE call.arg))
    => call.exc.kind = "OAVError_ZoomLevelNotFound"

\* the display configuration has a marker line of exactly the level zoom
ExactMarkers(zoom) ==
    {i \in 1..Len(display_config) :
        /\ display_config[i].sep
        /\ display_config[i].key = "zoomLevel"
        /\ ParseFloat(display_config[i].val).ok
        /\ ParseFloat(display_config[i].val).n = zoom.n}

\* __init__ got as far as _extract_beam_position
ReachedExtraction ==
    /\ call.op = "__init__"
    /\ fields["max_tip_distance"] # Unset
    /\ max_tip_distance_pixels # Unset

\* C4: when the display configuration has no marker line of the active zoom
\* level, _extract_beam_position, and with it construction, fails with the
\* beam-position-not-found error and no other.
C4_MissingMarkerRaises ==
    (/\ ReachedExtraction \/ call.op = "_extract_beam_position"
     /\ ExactMarkers(fields["zoom"]) = {})
    => call.exc.kind = "OAVError_BeamPositionNotFound"

\* the declared parameters whose value in the layered view is there and
\* cannot be coerced to the declared type
Uncoercible(maps) ==
    {i \in 1..Len(ParamSpecs) :
        /\ \E m \in 1..Len(maps) : ParamSpecs[i].name \in DOMAIN maps[m]
        /\ Coerce(ParamSpecs[i].type, ChainGet(maps, ParamSpecs[i].name, NoneV)).exc # "none"}

\* C5: when the layered view holds, for a declared field, a value that cannot
\* be coerced to the field's type, update_self_from_current_context (called
\* directly or by __init__) fails with a TypeError that names the field.
C5_TypeErrorNamesField ==
    (/\ call.op \in {"update_self_from_current_context", "__init__"}
     /\ active_params # <<>>
     /\ Uncoercible(active_params) # {})
    => /\ call.exc.kind = "TypeError"
       /\ \E i \in Uncoercible(active_params) : call.exc.names = ParamSpecs[i].name

\* C6: no object is constructed when a required parameter (one without
\* default) is absent from both the active context and the global parameters.
C6_RequiredMissingFailsConstruction ==
    (/\ call.op = "__init__"
     /\ context \in DOMAIN context_dicts
     /\ \E name \in Required : ~InLayers(context, name))
    => status = "failed"

\* C7: load_json partitions the top-level keys of the document: a key whose
\* value is not an object is in global_params with its value and not in
\* context_dicts, a key whose value is an object is in context_dicts with its
\* value and not in global_params, and there are no other keys.
C7_LoadJsonPartitions ==
    status # "new"
    => /\ \A k \in DOMAIN oav_config_json :
             IF oav_config_json[k].t # "dict"
             THEN /\ k \in DOMAIN global_params
                  /\ global_params[k] = oav_config_json[k]
                  /\ k \notin DOMAIN context_dicts
             ELSE /\ k \in DOMAIN context_dicts
                  /\ context_dicts[k] = oav_config_json[k]
                  /\ k \notin DOMAIN global_params
       /\ (DOMAIN global_params) \cup (DOMAIN context_dicts) = DOMAIN oav_config_json

\* a document with scalars and non-empty objects at the top level is loaded
C7_Witness ==
    /\ status = "ok"
    /\ DOMAIN global_params # {}
    /\ \E k \in DOMAIN context_dicts : DOMAIN context_dicts[k].d # {}

\* C8: on a constructed object calculate_beam_distance(h, v) returns
\* (beam_centre_x - h, beam_centre_y - v).
C8_DistanceFromBeamCentre ==
    (status = "ok" /\ call.op = "calculate_beam_distance")
    => call.ret = <<call.ret[1], call.ret[2],
                    beam_centre.x.n - call.ret[1], beam_centre.y.n - call.ret[2]>>

\* C9: the beam centre _extract_beam_position sets is read from the two lines
\* that follow a marker line of exactly the active zoom level.
C9_ExactMarkerOnly ==
    (/\ status = "ok"
     /\ call.op \in {"__init__", "_extract_beam_position"}
     /\ call.exc = NoExc)
    => \E m \in ExactMarkers(fields["zoom"]) :
          /\ m + 2 <= Len(display_config)
          /\ beam_centre.x = LineInt(display_config[m + 1]).val
          /\ beam_centre.y = LineInt(display_config[m + 2]).val

\* C10: update_context with a name that is not a key of context_dicts fails
\* with a lookup error and leaves the maps of active_params as they were.
C10_UnknownContextLeavesView ==
    [][(/\ call'.op = "update_context"
        /\ call'.arg.s[1] \notin DOMAIN context_dicts)
       => (/\ call'.exc.kind \in {"KeyError", "IndexError"}
           /\ active_params' = active_params)]_vars

====
